---- MODULE Spec2Model ----
(***************************************************************************)
(* Model of the authentication endpoints of the Express demo server        *)
(* (src/unnamed/part_000, identical in src/unnamed/part_001):              *)
(*   POST /api/v1/register, POST /api/v1/login, GET /api/v1/profile,       *)
(*   POST /api/v1/logout, over the in-memory array `users`.                *)
(*                                                                         *)
(* register and login are async handlers: each runs up to its              *)
(* `await bcrypt...` in one step of the event loop and resumes in a later  *)
(* one, so other requests are handled in between.  profile and logout are  *)
(* synchronous and take one step.                                          *)
(*                                                                         *)
(* Time is counted in hours.  Passwords are within bcrypt's input length.  *)
(***************************************************************************)
EXTENDS Integers, Sequences, FiniteSets, TLC

VARIABLES
    users,         \* const users = []  (the account directory)
    clock,         \* current time, hours
    jwtSecretEnv,  \* process.env.JWT_SECRET
    uuidCount,     \* number of identifiers uuidv4() has produced
    pc,            \* per connection: where its handler stands
    req,           \* per connection: the request its handler is working on
    found,         \* per connection: `user` held by a login awaiting compare
    last,          \* the response last sent, with the kind of the request
                   \* and the cookie and Authorization header it carried
    held,          \* the token most recently issued, as its client holds it
    loggedOut      \* whether a logout was handled since `held` was issued

vars == <<users, clock, jwtSecretEnv, uuidCount, pc, req, found, last, held,
          loggedOut>>

-----------------------------------------------------------------------------
(* Bounds *)

MaxUsers == 2
MaxClock == 24
TickHours == 12
Clients == {"c1", "c2"}

(* Program constants *)

saltRounds == 10
expiresIn == 24
DefaultSecret == "your-secret-key"

-----------------------------------------------------------------------------
(* JSON values of a request body, and JavaScript truthiness *)

Undefined == [t |-> "undefined"]
Str(s) == [t |-> "string", v |-> s]
Num(s) == [t |-> "number", v |-> s]

\* `x === undefined` for `!x`: the empty string passes
TruthyDefined(x) == x.t # "undefined"

Truthy(x) == x.t # "undefined" /\ ~(x.t = "string" /\ x.v = "")

UsernameInputs == {Undefined, Str("alice")}
EmailInputs == {Undefined, Str("a@x.com"), Str("A@x.com")}
RegisterPasswords == {Str(""), Str("pw123456"), Num("12345")}
LoginPasswords == RegisterPasswords \cup {Str("wrong")}
SecretEnvInputs == {Undefined, Str("s3cret")}

-----------------------------------------------------------------------------
(* bcryptjs *)

\* the salt bcrypt.hash generates: random, here a fresh one per account
GenSalt == uuidCount + 1

\* bcrypt.hash / bcrypt.compare reject when the password is not a string
BcryptRejects(password) == password.t # "string"

BcryptHash(password, rounds, salt) ==
    [t |-> "bcrypt", rounds |-> rounds, salt |-> salt,
     digest |-> <<salt, rounds, password.v>>]

BcryptCompare(password, hash) ==
    hash.digest = <<hash.salt, hash.rounds, password.v>>

-----------------------------------------------------------------------------
(* jsonwebtoken *)

Mac(key, payload) == [key |-> key, over |-> payload]

SigningSecret ==
    IF Truthy(jwtSecretEnv) THEN jwtSecretEnv.v ELSE DefaultSecret

JwtSign(userId, email, secret, now) ==
    LET payload == [userId |-> userId, email |-> email,
                    iat |-> now, exp |-> now + expiresIn]
    IN  [t |-> "jwt", payload |-> payload, sig |-> Mac(secret, payload)]

\* expiry tested with > for >=
JwtVerifyLate(token, secret, now) ==
    IF token.t # "jwt" THEN "jwt malformed"
    ELSE IF token.sig # [key |-> secret, over |-> token.payload]
    THEN "invalid signature"
    ELSE IF now > token.payload.exp THEN "jwt expired"
    ELSE "ok"

\* jwt.decode for jwt.verify: the signature is not checked
JwtDecodeOnly(token, secret, now) ==
    IF token.t # "jwt" THEN "jwt malformed"
    ELSE IF now >= token.payload.exp THEN "jwt expired"
    ELSE "ok"

\* the message of the error jwt.verify throws, or "ok"
JwtVerify(token, secret, now) ==
    IF token.t # "jwt" THEN "jwt malformed"
    ELSE IF token.sig # Mac(secret, token.payload) THEN "invalid signature"
    ELSE IF now >= token.payload.exp THEN "jwt expired"
    ELSE "ok"

-----------------------------------------------------------------------------
(* Helpers of the handlers *)

\* the comparison of emails ignores case
FindByEmailIgnoringCase(email) ==
    LET S == {i \in 1..Len(users) : users[i].email.t = email.t
                                    /\ users[i].email.v \in {"a@x.com", "A@x.com"}
                                    /\ email.v \in {"a@x.com", "A@x.com"}}
    IN  IF S = {} THEN Undefined
        ELSE users[CHOOSE i \in S : \A j \in S : i <= j]

\* Array.prototype.find: the first element satisfying the predicate
FindByEmail(email) ==
    LET S == {i \in 1..Len(users) : users[i].email = email}
    IN  IF S = {} THEN Undefined
        ELSE users[CHOOSE i \in S : \A j \in S : i <= j]

\* `u.id = decoded.userId` for `===`: the first account is returned
FindByIdAssigning(id) == IF Len(users) = 0 THEN Undefined ELSE users[1]

FindById(id) ==
    LET S == {i \in 1..Len(users) : users[i].id = id}
    IN  IF S = {} THEN Undefined
        ELSE users[CHOOSE i \in S : \A j \in S : i <= j]

\* req.headers.authorization?.split(" ")[1]; a header is its list of parts
SplitSecond(header) == IF Len(header) >= 2 THEN header[2] ELSE Undefined

\* the header is tried first
ExtractTokenHeaderFirst(cookie, header) ==
    IF Truthy(SplitSecond(header)) THEN SplitSecond(header) ELSE cookie

\* req.cookies.token || req.headers.authorization?.split(" ")[1]
ExtractToken(cookie, header) ==
    IF Truthy(cookie) THEN cookie ELSE SplitSecond(header)

RegisterView(u) ==
    [id |-> u.id, username |-> u.username, email |-> u.email,
     createdAt |-> u.createdAt]

\* `user: user`: the stored account as it is, hash included
LoginViewWhole(u) == u

LoginView(u) == [id |-> u.id, username |-> u.username, email |-> u.email]

Response(status, message, user, token, cookie, error) ==
    [status |-> status, message |-> message, user |-> user, token |-> token,
     cookie |-> cookie, error |-> error]

NoResponse == Response(0, "", Undefined, Undefined, Undefined, "")
Failure(status, message) ==
    Response(status, message, Undefined, Undefined, Undefined, "")
Thrown(status, message, error) ==
    Response(status, message, Undefined, Undefined, Undefined, error)

ClearCookie == [t |-> "clear"]
NoRequest == [kind |-> "none", cookie |-> Undefined, header |-> <<>>]

Idle(c) == pc[c] = "idle"
Hashing == {c \in Clients : pc[c] = "hashing"}

-----------------------------------------------------------------------------
(* What a client can present to GET profile: the tokens it received, and   *)
(* forgeries made from them.                                               *)

Held == {held} \ {Undefined}

OtherId(id) == (id % MaxUsers) + 1

\* payload altered after signing, signature kept
Tampered(tok) == [tok EXCEPT !.payload.userId = OtherId(@)]

\* payload altered and signed again with the public fallback string
Resigned(tok) ==
    LET p == [tok.payload EXCEPT !.userId = OtherId(@)]
    IN  [t |-> "jwt", payload |-> p, sig |-> Mac(DefaultSecret, p)]

CookieInputs == {Undefined} \cup Held \cup {Tampered(tok) : tok \in Held}
HeaderInputs ==
    {<<>>} \cup {<<Str("Bearer"), tok>> : tok \in Held}
           \cup {<<Str("Bearer"), Resigned(tok)>> : tok \in Held}

Answer(request, response) ==
    [kind |-> request.kind, cookie |-> request.cookie,
     header |-> request.header, resp |-> response]

-----------------------------------------------------------------------------
(* Initial state: the module has just been loaded *)

Init ==
    /\ users = <<>>
    /\ clock = 0
    /\ jwtSecretEnv \in SecretEnvInputs
    /\ uuidCount = 0
    /\ pc = [c \in Clients |-> "idle"]
    /\ req = [c \in Clients |-> NoRequest]
    /\ found = [c \in Clients |-> Undefined]
    /\ last = Answer(NoRequest, NoResponse)
    /\ held = Undefined
    /\ loggedOut = FALSE

-----------------------------------------------------------------------------
(* POST /api/v1/register *)

RegisterRequest(username, email, password) ==
    [kind |-> "register", username |-> username, email |-> email,
     password |-> password, cookie |-> Undefined, header |-> <<>>]

\* email stored in lower case
LowerCase(email) == IF email = Str("A@x.com") THEN Str("a@x.com") ELSE email

NewUserLowerCased(id, request, hashedPassword, now) ==
    [id |-> id, username |-> request.username,
     email |-> LowerCase(request.email),
     password |-> hashedPassword, createdAt |-> now]

\* const newUser = { id: uuidv4(), username, email, password, createdAt }
NewUser(id, request, hashedPassword, now) ==
    [id |-> id, username |-> request.username, email |-> request.email,
     password |-> hashedPassword, createdAt |-> now]

\* from the arrival of the request up to `await bcrypt.hash(...)`
RegisterStart(c, username, email, password) ==
    LET request == RegisterRequest(username, email, password) IN
    /\ Idle(c)
    /\ IF ~Truthy(username) \/ ~Truthy(email) \/ ~Truthy(password)
       THEN /\ last' = Answer(request,
                   Failure(400, "Username, email, and password are required"))
            /\ UNCHANGED <<pc, req>>
       ELSE IF FindByEmail(email) # Undefined
       THEN /\ last' = Answer(request, Failure(400, "User already exists"))
            /\ UNCHANGED <<pc, req>>
       ELSE /\ Len(users) + Cardinality(Hashing) < MaxUsers
            /\ pc' = [pc EXCEPT ![c] = "hashing"]
            /\ req' = [req EXCEPT ![c] = request]
            /\ UNCHANGED last
    /\ UNCHANGED <<users, clock, jwtSecretEnv, uuidCount, found, held,
                   loggedOut>>

\* `users.unshift(newUser)`: the new account goes to the front
PushFront(list, user) == <<user>> \o list

\* the account is built but never stored
PushDropped(list, user) == list

\* users.push(newUser)
Push(list, user) == Append(list, user)

\* from the resumption after `await bcrypt.hash(...)` to the response
RegisterFinish(c) ==
    /\ pc[c] = "hashing"
    /\ pc' = [pc EXCEPT ![c] = "idle"]
    /\ req' = [req EXCEPT ![c] = NoRequest]
    /\ IF BcryptRejects(req[c].password)
       THEN /\ last' = Answer(req[c],
                   Thrown(500, "Registration failed",
                          "Illegal arguments: number, number"))
            /\ UNCHANGED <<users, uuidCount, held, loggedOut>>
       ELSE LET hashedPassword == BcryptHash(req[c].password, saltRounds, GenSalt)
                newUser == NewUser(uuidCount + 1, req[c], hashedPassword, clock)
                token == JwtSign(newUser.id, newUser.email, SigningSecret, clock)
            IN  /\ uuidCount' = uuidCount + 1
                /\ users' = Push(users, newUser)
                /\ last' = Answer(req[c],
                       Response(201, "User registered successfully",
                                RegisterView(newUser), token, Undefined, ""))
                /\ held' = token
                /\ loggedOut' = FALSE
    /\ UNCHANGED <<clock, jwtSecretEnv, found>>

-----------------------------------------------------------------------------
(* POST /api/v1/login *)

LoginRequest(email, password) ==
    [kind |-> "login", email |-> email, password |-> password,
     cookie |-> Undefined, header |-> <<>>]

\* from the arrival of the request up to `await bcrypt.compare(...)`
LoginStart(c, email, password) ==
    LET request == LoginRequest(email, password) IN
    /\ Idle(c)
    /\ IF ~Truthy(email) \/ ~Truthy(password)
       THEN /\ last' = Answer(request,
                   Failure(400, "Email and password are required"))
            /\ UNCHANGED <<pc, req, found>>
       ELSE IF FindByEmail(email) = Undefined
       THEN /\ last' = Answer(request, Failure(401, "Invalid credentials"))
            /\ UNCHANGED <<pc, req, found>>
       ELSE /\ found' = [found EXCEPT ![c] = FindByEmail(email)]
            /\ pc' = [pc EXCEPT ![c] = "comparing"]
            /\ req' = [req EXCEPT ![c] = request]
            /\ UNCHANGED last
    /\ UNCHANGED <<users, clock, jwtSecretEnv, uuidCount, held, loggedOut>>

\* from the resumption after `await bcrypt.compare(...)` to the response
LoginFinish(c) ==
    /\ pc[c] = "comparing"
    /\ pc' = [pc EXCEPT ![c] = "idle"]
    /\ req' = [req EXCEPT ![c] = NoRequest]
    /\ found' = [found EXCEPT ![c] = Undefined]
    /\ IF BcryptRejects(req[c].password)
       THEN /\ last' = Answer(req[c],
                   Thrown(500, "Login failed",
                          "Illegal arguments: number, string"))
            /\ UNCHANGED <<held, loggedOut>>
       ELSE IF ~BcryptCompare(req[c].password, found[c].password)
       THEN /\ last' = Answer(req[c], Failure(401, "Invalid credentials"))
            /\ UNCHANGED <<held, loggedOut>>
       ELSE LET user == found[c]
                token == JwtSign(user.id, user.email, SigningSecret, clock)
            IN  /\ last' = Answer(req[c],
                       Response(200, "Login successful", LoginView(user),
                                token, token, ""))
                /\ held' = token
                /\ loggedOut' = FALSE
    /\ UNCHANGED <<users, clock, jwtSecretEnv, uuidCount>>

-----------------------------------------------------------------------------
(* GET /api/v1/profile *)

ProfileRequest(cookie, header) ==
    [kind |-> "profile", cookie |-> cookie, header |-> header]

\* without the `if (!token)` guard: jwt.verify(undefined) throws
ProfileResponseUnguarded(token, now) ==
    IF ~Truthy(token)
    THEN Thrown(401, "Invalid or expired token", "jwt must be provided")
    ELSE IF JwtVerify(token, SigningSecret, now) # "ok"
    THEN Thrown(401, "Invalid or expired token",
                JwtVerify(token, SigningSecret, now))
    ELSE IF FindById(token.payload.userId) = Undefined
    THEN Failure(404, "User not found")
    ELSE Response(200, "Profile retrieved successfully",
                  RegisterView(FindById(token.payload.userId)),
                  Undefined, Undefined, "")

ProfileResponse(token, now) ==
    IF ~Truthy(token) THEN Failure(401, "Access token required")
    ELSE IF JwtVerify(token, SigningSecret, now) # "ok"
    THEN Thrown(401, "Invalid or expired token",
                JwtVerify(token, SigningSecret, now))
    ELSE IF FindById(token.payload.userId) = Undefined
    THEN Failure(404, "User not found")
    ELSE Response(200, "Profile retrieved successfully",
                  RegisterView(FindById(token.payload.userId)),
                  Undefined, Undefined, "")

Profile(c, cookie, header) ==
    /\ Idle(c)
    /\ last' = Answer(ProfileRequest(cookie, header),
                      ProfileResponse(ExtractToken(cookie, header), clock))
    /\ UNCHANGED <<users, clock, jwtSecretEnv, uuidCount, pc, req, found, held,
                   loggedOut>>

-----------------------------------------------------------------------------
(* POST /api/v1/logout *)

LogoutRequest == [kind |-> "logout", cookie |-> Undefined, header |-> <<>>]

\* a logout that invalidates the tokens issued so far by changing the secret
LogoutRevoking(c) ==
    /\ Idle(c)
    /\ last' = Answer(LogoutRequest,
                      Response(200, "Logged out successfully", Undefined,
                               Undefined, ClearCookie, ""))
    /\ loggedOut' = TRUE
    /\ jwtSecretEnv' = Str("rotated")
    /\ UNCHANGED <<users, clock, uuidCount, pc, req, found, held>>

\* a logout that answers only clients that hold a token
LogoutAuthenticated(c) ==
    /\ Idle(c)
    /\ last' = Answer(LogoutRequest,
                      IF held = Undefined
                      THEN Failure(401, "Access token required")
                      ELSE Response(200, "Logged out successfully", Undefined,
                                    Undefined, ClearCookie, ""))
    /\ loggedOut' = TRUE
    /\ UNCHANGED <<users, clock, jwtSecretEnv, uuidCount, pc, req, found, held>>

Logout(c) ==
    /\ Idle(c)
    /\ last' = Answer(LogoutRequest,
                      Response(200, "Logged out successfully", Undefined,
                               Undefined, ClearCookie, ""))
    /\ loggedOut' = TRUE
    /\ UNCHANGED <<users, clock, jwtSecretEnv, uuidCount, pc, req, found, held>>

-----------------------------------------------------------------------------
(* Passage of time *)

Tick ==
    /\ clock + TickHours <= MaxClock
    /\ clock' = clock + TickHours
    /\ UNCHANGED <<users, jwtSecretEnv, uuidCount, pc, req, found, last, held,
                   loggedOut>>

-----------------------------------------------------------------------------
DoRegisterStart ==
    \E c \in Clients, username \in UsernameInputs, email \in EmailInputs,
       password \in RegisterPasswords : RegisterStart(c, username, email, password)
DoRegisterFinish == \E c \in Clients : RegisterFinish(c)
DoLoginStart ==
    \E c \in Clients, email \in EmailInputs, password \in LoginPasswords :
        LoginStart(c, email, password)
DoLoginFinish == \E c \in Clients : LoginFinish(c)
DoProfile ==
    \E c \in Clients, cookie \in CookieInputs, header \in HeaderInputs :
        Profile(c, cookie, header)
DoLogout == \E c \in Clients : Logout(c)

Next ==
    \/ DoRegisterStart
    \/ DoRegisterFinish
    \/ DoLoginStart
    \/ DoLoginFinish
    \/ DoProfile
    \/ DoLogout
    \/ Tick

Spec == Init /\ [][Next]_vars

(* The same server when no request arrives while another is being handled *)

AllIdle == \A c \in Clients : Idle(c)

SeqRegisterStart == AllIdle /\ DoRegisterStart
SeqLoginStart == AllIdle /\ DoLoginStart
SeqProfile == AllIdle /\ DoProfile
SeqLogout == AllIdle /\ DoLogout

NextSeq ==
    \/ SeqRegisterStart
    \/ DoRegisterFinish
    \/ SeqLoginStart
    \/ DoLoginFinish
    \/ SeqProfile
    \/ SeqLogout
    \/ Tick

SeqSpec == Init /\ [][NextSeq]_vars

-----------------------------------------------------------------------------
(* Vocabulary of the properties *)

\* the accounts of a directory with the given email (exact match)
AccountsIn(list, email) == {i \in 1..Len(list) : list[i].email = email}
AccountsWith(email) == AccountsIn(users, email)

AllPresent(username, email, password) ==
    Truthy(username) /\ Truthy(email) /\ Truthy(password)

\* the password is the one the account was registered with
PasswordOf(password, account) ==
    password.t = "string" /\ BcryptCompare(password, account.password)

InvalidCredentials == Failure(401, "Invalid credentials")

-----------------------------------------------------------------------------
(* C1: in every reachable state no two accounts of the users directory     *)
(* have the same email.                                                    *)
UniqueEmails ==
    \A i, j \in 1..Len(users) : users[i].email = users[j].email => i = j

(* C2: of two register requests with the same unregistered email handled   *)
(* concurrently, exactly one is answered 201 and the other 400 'User       *)
(* already exists': a register request that resumes from hashing when an   *)
(* account with its email has been added meanwhile is answered 400 and     *)
(* adds nothing.                                                           *)
RaceHasOneWinner ==
    [][\A c \in Clients :
         RegisterFinish(c) /\ AccountsWith(req[c].email) # {}
         => /\ last'.resp = Failure(400, "User already exists")
            /\ users' = users]_vars

(* C3: a register request answered 201 has appended exactly one account,   *)
(* which carries the request's email; a register request answered with a   *)
(* failure (400 or 500) has left the directory unchanged.                  *)
RegisterFrame ==
    [][/\ \A c \in Clients :
            RegisterFinish(c) =>
                IF last'.resp.status = 201
                THEN /\ Len(users') = Len(users) + 1
                     /\ SubSeq(users', 1, Len(users)) = users
                     /\ users'[Len(users')].email = req[c].email
                ELSE /\ last'.resp.status \in {400, 500}
                     /\ users' = users
       /\ (last'.kind = "register" /\ last'.resp.status # 201) => users' = users
      ]_vars

RegisterFrameWitness ==
    /\ last.kind = "register"
    /\ last.resp.status = 201
    /\ Len(users) = 2
    /\ users[2].email = last.resp.user.email
    /\ users[2].id = last.resp.user.id

(* C4: a login with an email that matches no account and a login with a    *)
(* registered email and a wrong password get the same response: 401        *)
(* 'Invalid credentials', no token, no cookie.                             *)
LoginIndistinguishable ==
    [][/\ \A c \in Clients, email \in EmailInputs, password \in LoginPasswords :
            LoginStart(c, email, password) /\ Truthy(email) /\ Truthy(password)
                /\ AccountsWith(email) = {}
            => last'.resp = InvalidCredentials
       /\ \A c \in Clients :
            LoginFinish(c) /\ ~PasswordOf(req[c].password, found[c])
            => last'.resp = InvalidCredentials]_vars

-----------------------------------------------------------------------------
LoginSucceedsForAccount ==
    [][\A c \in Clients :
         LoginFinish(c) =>
            \A i \in AccountsWith(req[c].email) :
                PasswordOf(req[c].password, users[i]) =>
                    /\ last'.resp.status = 200
                    /\ last'.resp.token # Undefined
                    /\ last'.resp.cookie = last'.resp.token
                    /\ last'.resp.token.payload.userId = users[i].id]_vars

-----------------------------------------------------------------------------
(* The token a profile request presents, cookie first *)
PresentedToken(cookie, header) ==
    IF cookie # Undefined THEN cookie
    ELSE IF Len(header) < 2 THEN Undefined ELSE header[2]

ProfileAnswered(c) == Profile(c, last'.cookie, last'.header)

(* C7: a profile request presenting a token the server issued, before the  *)
(* token's expiry, is answered 200 with the account the token was issued   *)
(* for: the user's id and email are the token's subject id and email.      *)
ProfileReturnsSubject ==
    [][\A c \in Clients :
         ProfileAnswered(c) =>
            LET tok == PresentedToken(last'.cookie, last'.header)
            IN  (tok \in Held /\ clock < tok.payload.exp) =>
                    /\ last'.resp.status = 200
                    /\ last'.resp.user.id = tok.payload.userId
                    /\ last'.resp.user.email = tok.payload.email]_vars

ProfileReturnsSubjectWitness ==
    /\ last.kind = "profile"
    /\ last.resp.status = 200
    /\ PresentedToken(last.cookie, last.header) = held
    /\ last.resp.user.id = 2
    /\ clock > held.payload.iat

(* C8: a profile request presenting a token at or after the token's        *)
(* issued-at time plus 24 hours is answered 401.                           *)
ExpiredTokenRejected ==
    [][\A c \in Clients :
         ProfileAnswered(c) =>
            LET tok == PresentedToken(last'.cookie, last'.header)
            IN  (tok # Undefined /\ clock >= tok.payload.iat + 24) =>
                    last'.resp.status = 401]_vars

ExpiredTokenRejectedWitness ==
    /\ last.kind = "profile"
    /\ last.resp = Thrown(401, "Invalid or expired token", "jwt expired")
    /\ PresentedToken(last.cookie, last.header) = held
    /\ clock = held.payload.iat + 24

(* C9: a profile request presenting an issued token in the Authorization   *)
(* header, without a cookie, before the token's expiry, is answered 200    *)
(* also when logout requests were handled after the token was issued.      *)
NoRevocation ==
    [][\A c \in Clients :
         (/\ ProfileAnswered(c)
          /\ loggedOut
          /\ last'.cookie = Undefined
          /\ last'.header = <<Str("Bearer"), held>>
          /\ clock < held.payload.iat + 24)
         => /\ last'.resp.status = 200
            /\ last'.resp.user.id = held.payload.userId]_vars

NoRevocationWitness ==
    /\ last.kind = "profile"
    /\ loggedOut
    /\ last.cookie = Undefined
    /\ last.header = <<Str("Bearer"), held>>
    /\ last.resp.status = 200
    /\ clock > held.payload.iat

(* C10: the response of a profile request is the one its cookie token      *)
(* gets when it carries a cookie token, and the one its Authorization      *)
(* header token gets only when it carries no cookie token.                 *)
CookieBeforeHeader ==
    [][\A c \in Clients :
         ProfileAnswered(c) =>
            IF last'.cookie # Undefined
            THEN last'.resp = ProfileResponse(last'.cookie, clock)
            ELSE last'.resp = ProfileResponse(SplitSecond(last'.header), clock)
      ]_vars

CookieBeforeHeaderWitness ==
    /\ last.kind = "profile"
    /\ held # Undefined
    /\ last.cookie = Tampered(held)
    /\ last.header = <<Str("Bearer"), held>>
    /\ clock < held.payload.exp
    /\ last.resp = Thrown(401, "Invalid or expired token", "invalid signature")

-----------------------------------------------------------------------------
(* C11: a profile request that carries neither a 'token' cookie nor an     *)
(* Authorization header is answered 401 'Access token required', with no   *)
(* account data, whatever the directory holds.                             *)
NoTokenUnauthorized ==
    [][\A c \in Clients :
         (ProfileAnswered(c) /\ last'.cookie = Undefined /\ last'.header = <<>>)
         => /\ last'.resp.status = 401
            /\ last'.resp.message = "Access token required"
            /\ last'.resp.user = Undefined]_vars

NoTokenUnauthorizedWitness ==
    /\ last.kind = "profile"
    /\ last.cookie = Undefined
    /\ last.header = <<>>
    /\ last.resp.status = 401
    /\ Len(users) > 0
    /\ held # Undefined

(* C12: a profile request whose presented token carries a signature that   *)
(* is not the server's signing secret's signature of the token's payload   *)
(* (signed with another secret, or payload altered after signing) is       *)
(* answered 401 and gets no account view.                                  *)
ForgedTokenRejected ==
    [][\A c \in Clients :
         ProfileAnswered(c) =>
            LET tok == PresentedToken(last'.cookie, last'.header)
            IN  (/\ tok # Undefined
                 /\ tok.sig # [key |-> SigningSecret, over |-> tok.payload])
                => /\ last'.resp.status = 401
                   /\ last'.resp.user = Undefined]_vars

ForgedTokenRejectedWitness ==
    /\ last.kind = "profile"
    /\ held # Undefined
    /\ last.cookie = Undefined
    /\ last.header = <<Str("Bearer"), Resigned(held)>>
    /\ jwtSecretEnv = Str("s3cret")
    /\ clock < held.payload.exp
    /\ Len(users) = 2
    /\ last.resp = Thrown(401, "Invalid or expired token", "invalid signature")

(* C13: while no signing secret is configured (JWT_SECRET unset or empty)  *)
(* no response of register or login carries a token and no profile         *)
(* request is answered with an account view.                               *)
NoFallbackSecret ==
    ~Truthy(jwtSecretEnv) =>
        /\ last.resp.token = Undefined
        /\ ~(last.kind = "profile" /\ last.resp.status = 200)

(* C14: a logout request is answered 200 'Logged out successfully' in      *)
(* every state, changes neither the directory nor any other state of the   *)
(* server, and a logout handled right after a logout changes nothing.      *)
LogoutAlwaysSucceeds ==
    [][\A c \in Clients :
         Logout(c) =>
            /\ last'.resp.status = 200
            /\ last'.resp.message = "Logged out successfully"
            /\ UNCHANGED <<users, jwtSecretEnv, uuidCount, pc, req, found>>
            /\ last.kind = "logout" => (last' = last /\ UNCHANGED vars)]_vars

LogoutAlwaysSucceedsWitness ==
    /\ last.kind = "logout"
    /\ last.resp.status = 200
    /\ held = Undefined
    /\ Len(users) = 0
    /\ loggedOut

-----------------------------------------------------------------------------
\* a field of the body that is absent, or the empty string
MissingField(x) == x = Undefined \/ x = Str("")

(* C15: a register request whose username, email or password is missing    *)
(* or empty is answered 400 at once and adds no handler awaiting a hash;   *)
(* a register response carries a token only with status 201.  Every        *)
(* RegisterStart step leaves users alone and either answers a register     *)
(* request or leaves the last answer alone, so only those steps are looked *)
(* at.                                                                     *)
RegisterValidation ==
    [][/\ (users' = users /\ (last' = last \/ last'.kind = "register"))
            => \A c \in Clients, username \in UsernameInputs,
                  email \in EmailInputs, password \in RegisterPasswords :
                 (/\ MissingField(username) \/ MissingField(email)
                         \/ MissingField(password)
                  /\ RegisterStart(c, username, email, password))
                 => /\ last'.resp.status = 400
                    /\ last'.resp.message =
                           "Username, email, and password are required"
                    /\ last'.resp.token = Undefined
                    /\ pc' = pc
       /\ (last'.kind = "register" /\ last'.resp.token # Undefined)
            => last'.resp.status = 201]_vars

RegisterValidationWitness ==
    /\ last.kind = "register"
    /\ last.resp =
           Failure(400, "Username, email, and password are required")
    /\ Len(users) = 1
    /\ \E c \in Clients : pc[c] = "hashing"

-----------------------------------------------------------------------------
\* the response of a catch block: the only bodies with an `error` detail
CaughtFailure(response) == response.error # ""

-----------------------------------------------------------------------------
(* C17: the accounts are append-only: every step keeps the accounts it     *)
(* found, in place and field for field; the only step that changes the     *)
(* directory is the completion of a register request, which appends one    *)
(* account; login, profile and logout leave it as it is.                   *)
AccountsAppendOnly ==
    [][/\ Len(users') >= Len(users)
       /\ SubSeq(users', 1, Len(users)) = users
       /\ users' # users
            => /\ Len(users') = Len(users) + 1
               /\ \E c \in Clients : RegisterFinish(c)
       /\ \A c \in Clients :
            (LoginFinish(c) \/ ProfileAnswered(c) \/ Logout(c))
            => users' = users]_vars

AccountsAppendOnlyWitness ==
    /\ Len(users) = 2
    /\ users[1].createdAt < users[2].createdAt
    /\ last.kind = "logout"
    /\ clock > users[2].createdAt

-----------------------------------------------------------------------------
(* C18: no response carries a credential: the user object of a register    *)
(* or profile response has exactly the fields id, username, email and      *)
(* createdAt, that of a login response exactly id, username and email;     *)
(* a response other than 200 or 201 has no user object and no token; and   *)
(* a token carries only the subject id, the email and the two times.       *)
NoCredentialInResponse ==
    LET response == last.resp IN
    /\ response.user # Undefined
         => /\ response.status \in {200, 201}
            /\ DOMAIN response.user =
                  IF last.kind = "login"
                  THEN {"id", "username", "email"}
                  ELSE {"id", "username", "email", "createdAt"}
    /\ response.token # Undefined
         => /\ response.status \in {200, 201}
            /\ DOMAIN response.token.payload = {"userId", "email", "iat", "exp"}
    /\ \A i \in 1..Len(users) :
         /\ response.user # users[i]
         /\ response.user # Undefined
              => \A f \in {"username", "email"} :
                    response.user[f] # users[i].password

NoCredentialInResponseWitness ==
    /\ last.kind = "login"
    /\ last.resp.status = 200
    /\ last.resp.user.email = Str("A@x.com")
    /\ \E i \in 1..Len(users) :
         /\ users[i].id = last.resp.user.id
         /\ users[i].password.t = "bcrypt"

-----------------------------------------------------------------------------
\* the ids of the accounts of a directory
IdsIn(list) == {list[i].id : i \in 1..Len(list)}

(* C19: a token that register or login has issued names a subject that is  *)
(* in the directory when it is issued and in every later state, so a       *)
(* profile request presenting an unexpired token issued by this server is  *)
(* never answered 404.                                                     *)
IssuedSubjectPresent ==
    [][/\ held' # Undefined => held'.payload.userId \in IdsIn(users')
       /\ last'.resp.token # Undefined
            => last'.resp.token.payload.userId \in IdsIn(users')
       /\ \A c \in Clients :
            (/\ ProfileAnswered(c)
             /\ PresentedToken(last'.cookie, last'.header) \in Held
             /\ clock < held.payload.exp)
            => last'.resp.status # 404]_vars

IssuedSubjectPresentWitness ==
    /\ held # Undefined
    /\ last.kind = "profile"
    /\ last.cookie = held
    /\ last.resp.status = 200
    /\ Len(users) = 2
    /\ held.payload.userId = 1
    /\ clock = held.payload.iat + TickHours

====
